---- MODULE Spec2Model ----
(***************************************************************************)
(* A model of the otel-demo Flask applications:                            *)
(*   - aws_sdk_call_manual_instrumentation, the handler that wraps the S3  *)
(*     list_buckets call in a root span and three child spans, counts the  *)
(*     outcome and logs a failure (python/main.py and                      *)
(*     python/manual_instrumentation/main.py);                             *)
(*   - convert_otel_trace_id_to_xray, the conversion of a 128-bit trace id *)
(*     to the X-Ray trace id string.                                       *)
(***************************************************************************)
EXTENDS Integers, Sequences, FiniteSets, TLC

\* ------------------------------------------------------------------ bounds

\* Requests served concurrently by the threaded Flask server.
NumInvocations == 2

\* Longest bucket listing the S3 account returns.
MaxBuckets == 2

\* How many of SampleLimbs a generated trace id draws its 16-bit limbs from.
LimbChoices == 3

\* ------------------------------------------------------------------ state

VARIABLES
    variant,        \* which application runs: "main" or "manual_instrumentation"
    requests,       \* the requests (handler invocations) of this run
    account,        \* what S3 holds: the 'Buckets' list of a list_buckets response
    pc,             \* each invocation's position in the handler
    spans,          \* each invocation's spans, by name
    exc,            \* each invocation's exception in flight (NoExc: none)
    caught,         \* each invocation's exception bound by `except Exception as e`
    response,       \* each invocation's `response`
    bucket_names,   \* each invocation's `bucket_names`
    api_calls,      \* each invocation's calls of s3.list_buckets()
    api_error,      \* the exception list_buckets() raised to the invocation (NoExc: none)
    adds,           \* each invocation's calls of the counter's add(1, labels)
    logs,           \* each invocation's log records
    result,         \* each invocation's return value
    raised,         \* whether the invocation ended by raising
    counter,        \* aws_sdk_call_manual_instrumentation_count, by label set
    fpc,            \* position of the route that surfaces the X-Ray trace id
    trace_id,       \* the span context's trace id, as 8 big-endian 16-bit limbs
    traceIdField    \* the string convert_otel_trace_id_to_xray returned

hvars == <<pc, spans, exc, caught, response, bucket_names, api_calls, api_error, adds,
           logs, result, raised, counter>>
envvars == <<variant, requests, account>>
fvars == <<fpc, trace_id, traceIdField>>
vars == <<envvars, hvars, fvars>>

\* ------------------------------------------------------------------ values

Variants == {"main", "manual_instrumentation"}

RootSpan == "aws_s3_list_operation"
ClientSpan == "s3_client_setup"
ApiSpan == "s3_list_buckets_api_call"
ProcSpan == "response_processing"
ChildSpans == {ClientSpan, ApiSpan, ProcSpan}
SpanNames == {RootSpan} \cup ChildSpans

NoExc == [type |-> "none", msg |-> ""]

\* The exceptions the three phases can raise; all are subclasses of Exception.
ErrorMessages == {"access denied", "connection timed out"}
ClientSetupErrors == {[type |-> "NoRegionError", msg |-> "You must specify a region."]}
ApiCallErrors == [type : {"ClientError"}, msg : ErrorMessages]
KeyErrorOf(key) == [type |-> "KeyError", msg |-> key]
ExceptionTypes == {"NoRegionError", "ClientError", "KeyError"}

\* str(e)
Str(e) == e.msg

\* `except Exception as e`: every exception the phases raise is an Exception.
CatchesClientErrorOnly(e) == e.type = "ClientError"
Catches(e) == e.type \in ExceptionTypes

\* The label sets of the two add() calls.
SuccessLabels == [operation |-> "list_buckets"]
ErrorLabels == [operation |-> "list_buckets", status |-> "error"]
LabelSets == {SuccessLabels, ErrorLabels}

\* A bucket of a list_buckets response: a dict with 'Name', or one without it.
BucketNames == {"alpha", "beta"}
BucketEntries == [Name : BucketNames] \cup {[CreationDate |-> "2024-01-01"]}
RECURSIVE SeqsUpTo(_, _)
SeqsUpTo(S, n) ==
    IF n = 0 THEN {<<>>}
    ELSE LET shorter == SeqsUpTo(S, n - 1)
         IN shorter \cup {Append(s, x) : s \in {t \in shorter : Len(t) = n - 1}, x \in S}
Listings == SeqsUpTo(BucketEntries, MaxBuckets)
\* The listings of the run with concurrent requests.
SampleListings == {<<>>, <<[Name |-> "alpha"], [Name |-> "beta"]>>,
                   <<[Name |-> "beta"], [CreationDate |-> "2024-01-01"]>>}

NoResponse == [received |-> FALSE]
NoResult == [returned |-> FALSE]

UnsetStatus == [code |-> "UNSET", description |-> ""]
NewSpan == [opened |-> 0, closed |-> 0, attrs |-> <<>>, events |-> <<>>,
            status |-> UnsetStatus, exceptions |-> <<>>]

\* ------------------------------------------------------------------ span API

\* tracer.start_as_current_span(name): __enter__
StartSpan(span) == [span EXCEPT !.opened = @ + 1]
SetAttribute(span, key, value) == [span EXCEPT !.attrs = Append(@, <<key, value>>)]
AddEvent(span, name) == [span EXCEPT !.events = Append(@, name)]
RecordException(span, e) == [span EXCEPT !.exceptions = Append(@, e)]
SetStatusError(span, description) ==
    [span EXCEPT !.status = [code |-> "ERROR", description |-> description]]
EndSpan(span) == [span EXCEPT !.closed = @ + 1]

\* Leaving a `with tracer.start_as_current_span(...)` block: the span ends on
\* every exit; an exception leaving the block is recorded on the span first.
WithExitLeaksOnError(span, e) ==
    IF e = NoExc THEN EndSpan(span) ELSE SetStatusError(RecordException(span, e), Str(e))
WithExit(span, e) ==
    IF e = NoExc THEN EndSpan(span)
    ELSE EndSpan(SetStatusError(RecordException(span, e), Str(e)))

\* A handler that goes on to the next phase whatever the phase raised.
AfterPhaseSwallows(e, next) == next
\* Where control goes after a child `with` block inside the try.
AfterPhase(e, next) ==
    IF e = NoExc THEN next ELSE IF Catches(e) THEN "except" ELSE "root_exit"

\* counter.add(1, labels)
CounterAddOverwrite(c, labels) == [c EXCEPT ![labels] = 1]
CounterAdd(c, labels) == [c EXCEPT ![labels] = @ + 1]

\* [bucket['Name'] for bucket in response['Buckets']]
HasNames(buckets) == \A k \in 1..Len(buckets) : "Name" \in DOMAIN buckets[k]
ExtractNamesReversed(buckets) ==
    [k \in 1..Len(buckets) |-> buckets[Len(buckets) + 1 - k].Name]
ExtractNames(buckets) == [k \in 1..Len(buckets) |-> buckets[k].Name]

\* The two return values.
SuccessResult(names) ==
    [message |-> "Listed S3 buckets successfully", buckets |-> names]
ErrorResultType(e) == [error |-> e.type, message |-> "Failed to list S3 buckets"]
ErrorResult(e) == [error |-> Str(e), message |-> "Failed to list S3 buckets"]

\* The error log line of each application.
ErrorLogMessage(v, e) ==
    IF v = "main" THEN <<"Error during AWS SDK call: ", Str(e)>>
    ELSE <<"Error listing S3 buckets: ", Str(e)>>

\* ------------------------------------------------------------------ handler

\* The state at the start of a run serving the requests `reqs`.
HandlerInit(reqs) ==
    /\ requests = reqs
    /\ pc = [i \in reqs |-> "start"]
    /\ spans = [i \in reqs |-> [s \in SpanNames |-> NewSpan]]
    /\ exc = [i \in reqs |-> NoExc]
    /\ caught = [i \in reqs |-> NoExc]
    /\ response = [i \in reqs |-> NoResponse]
    /\ bucket_names = [i \in reqs |-> <<>>]
    /\ api_calls = [i \in reqs |-> 0]
    /\ api_error = [i \in reqs |-> NoExc]
    /\ adds = [i \in reqs |-> <<>>]
    /\ logs = [i \in reqs |-> <<>>]
    /\ result = [i \in reqs |-> NoResult]
    /\ raised = [i \in reqs |-> FALSE]
    /\ counter = [l \in LabelSets |-> 0]

FormatIdle ==
    /\ fpc = "idle"
    /\ trace_id = [k \in 1..8 |-> 0]
    /\ traceIdField = <<>>

Goto(i, label) == pc' = [pc EXCEPT ![i] = label]
Span(i, name) == spans[i][name]
SetSpan(i, name, span) == spans' = [spans EXCEPT ![i][name] = span]

\* start_time = datetime.now(); ...; logging.info(...)
Begin(i) ==
    /\ pc[i] = "start"
    /\ logs' = [logs EXCEPT ![i] = Append(@,
            [level |-> "info",
             msg |-> <<"Starting manual instrumentation for AWS SDK call Parent span: ",
                       "span_id">>])]
    /\ Goto(i, "open_root")
    /\ UNCHANGED <<envvars, fvars, spans, exc, caught, response, bucket_names,
                   api_calls, api_error, adds, result, raised, counter>>

\* with tracer.start_as_current_span("aws_s3_list_operation") as main_span: try: ...
OpenRoot(i) ==
    /\ pc[i] = "open_root"
    /\ SetSpan(i, RootSpan,
         AddEvent(
           SetAttribute(
             SetAttribute(
               SetAttribute(
                 SetAttribute(
                   SetAttribute(StartSpan(Span(i, RootSpan)),
                     "operation.type", "aws_sdk_call"),
                   "language", "python-manual-instrumentation"),
                 "aws.service", "s3"),
               "aws.operation", "list_buckets"),
             "component", "boto3"),
           "Operation initialized"))
    /\ Goto(i, "client_open")
    /\ UNCHANGED <<envvars, fvars, exc, caught, response, bucket_names,
                   api_calls, api_error, adds, logs, result, raised, counter>>

\* with tracer.start_as_current_span("s3_client_setup") as client_span: ...
ClientOpen(i) ==
    /\ pc[i] = "client_open"
    /\ SetSpan(i, ClientSpan,
         AddEvent(
           SetAttribute(
             SetAttribute(StartSpan(Span(i, ClientSpan)), "aws.service", "s3"),
             "operation.phase", "client_initialization"),
           "Starting S3 client initialization"))
    /\ Goto(i, "client_body")
    /\ UNCHANGED <<envvars, fvars, exc, caught, response, bucket_names,
                   api_calls, api_error, adds, logs, result, raised, counter>>

\* s3 = boto3.client('s3'); client_span.add_event("S3 client initialized successfully")
ClientConstruct(i) ==
    /\ pc[i] = "client_body"
    /\ \/ /\ SetSpan(i, ClientSpan,
               AddEvent(Span(i, ClientSpan), "S3 client initialized successfully"))
          /\ UNCHANGED exc
       \/ /\ \E e \in ClientSetupErrors : exc' = [exc EXCEPT ![i] = e]
          /\ UNCHANGED spans
    /\ Goto(i, "client_exit")
    /\ UNCHANGED <<envvars, fvars, caught, response, bucket_names,
                   api_calls, api_error, adds, logs, result, raised, counter>>

\* The end of a child span's `with` block.
ChildExit(i, name, at, next) ==
    /\ pc[i] = at
    /\ SetSpan(i, name, WithExit(Span(i, name), exc[i]))
    /\ Goto(i, AfterPhase(exc[i], next))
    /\ UNCHANGED <<envvars, fvars, exc, caught, response, bucket_names,
                   api_calls, api_error, adds, logs, result, raised, counter>>

ClientExit(i) == ChildExit(i, ClientSpan, "client_exit", "api_open")

\* with tracer.start_as_current_span("s3_list_buckets_api_call") as api_span: ...
ApiOpen(i) ==
    /\ pc[i] = "api_open"
    /\ SetSpan(i, ApiSpan,
         AddEvent(
           SetAttribute(
             SetAttribute(
               SetAttribute(
                 SetAttribute(StartSpan(Span(i, ApiSpan)), "aws.service", "s3"),
                 "aws.operation", "list_buckets"),
               "operation.phase", "api_execution"),
             "http.method", "GET"),
           "Starting API call to list S3 buckets"))
    /\ Goto(i, "api_call")
    /\ UNCHANGED <<envvars, fvars, exc, caught, response, bucket_names,
                   api_calls, api_error, adds, logs, result, raised, counter>>

\* The statements after `response = s3.list_buckets()` returned `body`.
ApiCallReturned(i, body) ==
    /\ response' = [response EXCEPT ![i] = [received |-> TRUE, body |-> body]]
    /\ IF "Buckets" \in DOMAIN body
       THEN /\ SetSpan(i, ApiSpan,
                 AddEvent(
                   SetAttribute(
                     SetAttribute(Span(i, ApiSpan),
                       "aws.s3.bucket_count", Len(body.Buckets)),
                     "operation.duration_ms", "api_duration"),
                   "API call completed successfully"))
            /\ UNCHANGED exc
       ELSE /\ exc' = [exc EXCEPT ![i] = KeyErrorOf("'Buckets'")]
            /\ UNCHANGED spans

\* s3.list_buckets() raised e.
ApiCallFailed(i, e) ==
    /\ exc' = [exc EXCEPT ![i] = e]
    /\ api_error' = [api_error EXCEPT ![i] = e]
    /\ UNCHANGED <<response, spans>>

\* A handler that calls list_buckets() a second time when the first call fails.
ApiCallRetried(i) ==
    /\ pc[i] = "api_call"
    /\ api_calls' = [api_calls EXCEPT ![i] = @ + 1]
    /\ \/ /\ ApiCallReturned(i, [Buckets |-> account])
          /\ UNCHANGED api_error
          /\ Goto(i, "api_exit")
       \/ /\ \E e \in ApiCallErrors : ApiCallFailed(i, e)
          /\ Goto(i, IF api_calls[i] = 0 THEN "api_call" ELSE "api_exit")
    /\ UNCHANGED <<envvars, fvars, caught, bucket_names,
                   adds, logs, result, raised, counter>>

\* api_call_start = ...; response = s3.list_buckets(); ...; api_span.add_event(...)
ApiCall(i) ==
    /\ pc[i] = "api_call"
    /\ api_calls' = [api_calls EXCEPT ![i] = @ + 1]
    /\ \/ /\ ApiCallReturned(i, [Buckets |-> account])
          /\ UNCHANGED api_error
       \/ /\ ApiCallReturned(i, [ResponseMetadata |-> "metadata"])
          /\ UNCHANGED api_error
       \/ \E e \in ApiCallErrors : ApiCallFailed(i, e)
    /\ Goto(i, "api_exit")
    /\ UNCHANGED <<envvars, fvars, caught, bucket_names,
                   adds, logs, result, raised, counter>>

\* The API span's block left open, the processing block nested inside it.
ApiExitNested(i) ==
    /\ pc[i] = "api_exit"
    /\ Goto(i, AfterPhase(exc[i], "proc_open"))
    /\ UNCHANGED <<envvars, fvars, spans, exc, caught, response, bucket_names,
                   api_calls, api_error, adds, logs, result, raised, counter>>

ApiExit(i) == ChildExit(i, ApiSpan, "api_exit", "proc_open")

\* with tracer.start_as_current_span("response_processing") as processing_span: ...
ProcOpen(i) ==
    /\ pc[i] = "proc_open"
    /\ SetSpan(i, ProcSpan,
         AddEvent(
           SetAttribute(
             SetAttribute(StartSpan(Span(i, ProcSpan)),
               "operation.phase", "data_processing"),
             "data.type", "s3_bucket_list"),
           "Starting response data processing"))
    /\ Goto(i, "proc_body")
    /\ UNCHANGED <<envvars, fvars, exc, caught, response, bucket_names,
                   api_calls, api_error, adds, logs, result, raised, counter>>

\* bucket_names = [bucket['Name'] for bucket in response['Buckets']]; ...
ProcBody(i) ==
    /\ pc[i] = "proc_body"
    /\ LET buckets == response[i].body.Buckets
       IN IF HasNames(buckets)
          THEN /\ bucket_names' = [bucket_names EXCEPT ![i] = ExtractNames(buckets)]
               /\ SetSpan(i, ProcSpan,
                    AddEvent(
                      SetAttribute(Span(i, ProcSpan),
                        "processed.bucket_count", Len(buckets)),
                      "Response processing completed"))
               /\ UNCHANGED exc
          ELSE /\ exc' = [exc EXCEPT ![i] = KeyErrorOf("'Name'")]
               /\ UNCHANGED <<bucket_names, spans>>
    /\ Goto(i, "proc_exit")
    /\ UNCHANGED <<envvars, fvars, caught, response,
                   api_calls, api_error, adds, logs, result, raised, counter>>

ProcExit(i) == ChildExit(i, ProcSpan, "proc_exit", "complete")

\* end_time = ...; main_span.set_attribute(...); main_span.add_event(...)
Complete(i) ==
    /\ pc[i] = "complete"
    /\ SetSpan(i, RootSpan,
         AddEvent(
           SetAttribute(
             SetAttribute(Span(i, RootSpan),
               "operation.total_duration_ms", "total_duration"),
             "operation.success", TRUE),
           "Operation completed successfully"))
    /\ Goto(i, "count_success")
    /\ UNCHANGED <<envvars, fvars, exc, caught, response, bucket_names,
                   api_calls, api_error, adds, logs, result, raised, counter>>

\* The success path without its add() call.
CountSuccessSkipped(i) ==
    /\ pc[i] = "count_success"
    /\ Goto(i, "return_success")
    /\ UNCHANGED <<envvars, fvars, spans, exc, caught, response, bucket_names,
                   api_calls, api_error, adds, logs, result, raised, counter>>

\* aws_sdk_call_manual_instrumentation_count.add(1, {"operation": "list_buckets"})
CountSuccess(i) ==
    /\ pc[i] = "count_success"
    /\ counter' = CounterAdd(counter, SuccessLabels)
    /\ adds' = [adds EXCEPT ![i] = Append(@, SuccessLabels)]
    /\ Goto(i, "return_success")
    /\ UNCHANGED <<envvars, fvars, spans, exc, caught, response, bucket_names,
                   api_calls, api_error, logs, result, raised>>

\* return {"message": "Listed S3 buckets successfully", "buckets": bucket_names}
ReturnSuccess(i) ==
    /\ pc[i] = "return_success"
    /\ result' = [result EXCEPT ![i] = SuccessResult(bucket_names[i])]
    /\ Goto(i, "root_exit")
    /\ UNCHANGED <<envvars, fvars, spans, exc, caught, response, bucket_names,
                   api_calls, api_error, adds, logs, raised, counter>>

\* except Exception as e: main_span.record_exception(e); main_span.set_status(...)
Except(i) ==
    /\ pc[i] = "except"
    /\ caught' = [caught EXCEPT ![i] = exc[i]]
    /\ exc' = [exc EXCEPT ![i] = NoExc]
    /\ SetSpan(i, RootSpan,
         SetStatusError(RecordException(Span(i, RootSpan), exc[i]), Str(exc[i])))
    /\ Goto(i, IF variant = "main" THEN "count_error" ELSE "log_error")
    /\ UNCHANGED <<envvars, fvars, response, bucket_names,
                   api_calls, api_error, adds, logs, result, raised, counter>>

\* aws_sdk_call_manual_instrumentation_count.add(1, {..., "status": "error"})
CountError(i) ==
    /\ pc[i] = "count_error"
    /\ counter' = CounterAdd(counter, ErrorLabels)
    /\ adds' = [adds EXCEPT ![i] = Append(@, ErrorLabels)]
    /\ Goto(i, IF variant = "main" THEN "log_error" ELSE "return_error")
    /\ UNCHANGED <<envvars, fvars, spans, exc, caught, response, bucket_names,
                   api_calls, api_error, logs, result, raised>>

\* The except block without its error log.
LogErrorSkipped(i) ==
    /\ pc[i] = "log_error"
    /\ Goto(i, IF variant = "main" THEN "return_error" ELSE "count_error")
    /\ UNCHANGED <<envvars, fvars, spans, exc, caught, response, bucket_names,
                   api_calls, api_error, adds, logs, result, raised, counter>>

\* s3_bucket_logger.error(...) in main.py, s3_logger.error(...) in manual_instrumentation
LogError(i) ==
    /\ pc[i] = "log_error"
    /\ logs' = [logs EXCEPT ![i] = Append(@,
            [level |-> "error", msg |-> ErrorLogMessage(variant, caught[i])])]
    /\ Goto(i, IF variant = "main" THEN "return_error" ELSE "count_error")
    /\ UNCHANGED <<envvars, fvars, spans, exc, caught, response, bucket_names,
                   api_calls, api_error, adds, result, raised, counter>>

\* return {"error": str(e), "message": "Failed to list S3 buckets"}
ReturnError(i) ==
    /\ pc[i] = "return_error"
    /\ result' = [result EXCEPT ![i] = ErrorResult(caught[i])]
    /\ Goto(i, "root_exit")
    /\ UNCHANGED <<envvars, fvars, spans, exc, caught, response, bucket_names,
                   api_calls, api_error, adds, logs, raised, counter>>

\* The end of the root span's `with` block: the handler returns, or an exception
\* the try did not catch leaves the handler.
RootExit(i) ==
    /\ pc[i] = "root_exit"
    /\ SetSpan(i, RootSpan, WithExit(Span(i, RootSpan), exc[i]))
    /\ raised' = [raised EXCEPT ![i] = exc[i] /= NoExc]
    /\ Goto(i, "done")
    /\ UNCHANGED <<envvars, fvars, exc, caught, response, bucket_names,
                   api_calls, api_error, adds, logs, result, counter>>

Init ==
    /\ variant \in Variants
    /\ account \in Listings
    /\ HandlerInit({1})
    /\ FormatIdle

InitConcurrent ==
    /\ variant \in Variants
    /\ account \in SampleListings
    /\ HandlerInit(1..NumInvocations)
    /\ FormatIdle

Next ==
    \/ \E i \in requests : Begin(i)
    \/ \E i \in requests : OpenRoot(i)
    \/ \E i \in requests : ClientOpen(i)
    \/ \E i \in requests : ClientConstruct(i)
    \/ \E i \in requests : ClientExit(i)
    \/ \E i \in requests : ApiOpen(i)
    \/ \E i \in requests : ApiCall(i)
    \/ \E i \in requests : ApiExit(i)
    \/ \E i \in requests : ProcOpen(i)
    \/ \E i \in requests : ProcBody(i)
    \/ \E i \in requests : ProcExit(i)
    \/ \E i \in requests : Complete(i)
    \/ \E i \in requests : CountSuccess(i)
    \/ \E i \in requests : ReturnSuccess(i)
    \/ \E i \in requests : Except(i)
    \/ \E i \in requests : CountError(i)
    \/ \E i \in requests : LogError(i)
    \/ \E i \in requests : ReturnError(i)
    \/ \E i \in requests : RootExit(i)

\* One request at a time, over every listing up to MaxBuckets.
Spec == Init /\ [][Next]_vars

\* NumInvocations requests served concurrently.
SpecConcurrent == InitConcurrent /\ [][Next]_vars

\* ------------------------------------------------------------------ properties of the handler

Returned(i) == pc[i] = "done"
IsSuccessShape(r) == DOMAIN r = {"message", "buckets"}
IsErrorShape(r) == DOMAIN r = {"error", "message"}
RECURSIVE CountOf(_, _)
CountOf(seq, x) ==
    IF Len(seq) = 0 THEN 0
    ELSE (IF Head(seq) = x THEN 1 ELSE 0) + CountOf(Tail(seq), x)
\* One step of invocation i.
Handler(i) ==
    \/ Begin(i) \/ OpenRoot(i)
    \/ ClientOpen(i) \/ ClientConstruct(i) \/ ClientExit(i)
    \/ ApiOpen(i) \/ ApiCall(i) \/ ApiExit(i)
    \/ ProcOpen(i) \/ ProcBody(i) \/ ProcExit(i)
    \/ Complete(i) \/ CountSuccess(i) \/ ReturnSuccess(i)
    \/ Except(i) \/ CountError(i) \/ LogError(i) \/ ReturnError(i)
    \/ RootExit(i)

ListedNames(i) ==
    /\ response[i] /= NoResponse
    /\ "Buckets" \in DOMAIN response[i].body
    /\ \A k \in 1..Len(response[i].body.Buckets) :
           "Name" \in DOMAIN response[i].body.Buckets[k]

\* C3: when list_buckets succeeds with a sequence of bucket names, the handler
\* returns {message: "Listed S3 buckets successfully", buckets: the same names in
\* the same order}, makes exactly one add() with the labels
\* {operation: list_buckets}, which raises that label set's count by one per such
\* invocation, and makes no error-labelled add().
C3_SuccessReported ==
    \A i \in requests :
        Returned(i) /\ ListedNames(i) =>
            /\ DOMAIN result[i] = {"message", "buckets"}
            /\ result[i].message = "Listed S3 buckets successfully"
            /\ Len(result[i].buckets) = Len(account)
            /\ \A k \in 1..Len(account) : result[i].buckets[k] = account[k].Name
            /\ adds[i] = <<[operation |-> "list_buckets"]>>
            /\ counter[[operation |-> "list_buckets"]] =
                   Cardinality({j \in requests :
                       CountOf(adds[j], [operation |-> "list_buckets"]) > 0})
            /\ CountOf(adds[i], [operation |-> "list_buckets", status |-> "error"]) = 0

\* C3 witness: two different bucket names were listed and returned.
C3_Witness ==
    \E i \in requests :
        /\ Returned(i)
        /\ ListedNames(i)
        /\ Len(account) >= 2
        /\ account[1].Name /= account[2].Name
        /\ counter[[operation |-> "list_buckets"]] = 1

\* C4: every span an invocation opens (the root span and the three child spans)
\* is opened at most once and closed at most once, never closed unopened, and
\* once the handler has returned every opened span is closed and the root span
\* has been opened.
C4_SpansClosed ==
    \A i \in requests :
        /\ \A s \in SpanNames :
               /\ spans[i][s].closed <= spans[i][s].opened
               /\ spans[i][s].opened <= 1
               /\ Returned(i) => spans[i][s].closed = spans[i][s].opened
        /\ Returned(i) => spans[i][RootSpan].opened = 1

\* C4 witness: the API call failed inside its span and the handler returned.
C4_Witness ==
    \E i \in requests :
        /\ Returned(i)
        /\ api_error[i] /= NoExc
        /\ spans[i][ApiSpan].closed = 1
        /\ spans[i][ProcSpan].opened = 0

\* C5: an invocation makes at most one add() on the outcome counter at any
\* time, and exactly one in total, over both label sets, once it has returned.
C5_OneIncrement ==
    \A i \in requests :
        /\ Len(adds[i]) <= 1
        /\ Returned(i) => Len(adds[i]) = 1
        /\ \A k \in 1..Len(adds[i]) : adds[i][k] \in LabelSets

\* C5 witness: an invocation returned the success shape after one add().
C5_Witness ==
    \E i \in requests :
        /\ Returned(i)
        /\ IsSuccessShape(result[i])
        /\ Len(adds[i]) = 1

FailedPositions ==
    {"api_exit", "except", "count_error", "log_error", "return_error",
     "root_exit", "done"}
BeforeApiCall ==
    {"start", "open_root", "client_open", "client_body", "client_exit",
     "api_open", "api_call"}

\* C6: list_buckets is never retried: an invocation calls it at most once; a
\* failed call leaves the API phase for the failure path at once, with no
\* response received and the processing span never opened; and an invocation
\* that got as far as the call has made exactly one.
C6_NoRetry ==
    \A i \in requests :
        /\ api_calls[i] <= 1
        /\ api_error[i] /= NoExc =>
              /\ api_calls[i] = 1
              /\ pc[i] \in FailedPositions
              /\ response[i] = NoResponse
              /\ spans[i][ProcSpan].opened = 0
              /\ Returned(i) => IsErrorShape(result[i])
        /\ api_calls[i] = 0 <=>
              \/ pc[i] \in BeforeApiCall
              \/ spans[i][ApiSpan].opened = 0

\* C6 witness: one failed call, and the invocation has returned the error shape.
C6_Witness ==
    \E i \in requests :
        /\ Returned(i)
        /\ api_calls[i] = 1
        /\ api_error[i] /= NoExc
        /\ IsErrorShape(result[i])

\* The invocations that ended with the outcome of a label set.
EndedWith(labels) ==
    {i \in requests :
        /\ Returned(i)
        /\ IF labels = [operation |-> "list_buckets"]
           THEN IsSuccessShape(result[i]) ELSE IsErrorShape(result[i])}

TRACE_ID_VERSION == <<"1">>
TRACE_ID_DELIMITER == <<"-">>
TRACE_ID_FIRST_PART_LENGTH == 8

\* The width of the format specification "{:032x}".
HexWidth == 32

\* A 128-bit integer is held as 8 limbs of 16 bits, the most significant first.
SampleLimbs == <<0, 65535, 2748, 256, 1, 40960>>
LimbValues == {SampleLimbs[k] : k \in 1..LimbChoices}
TraceIds == [1..8 -> LimbValues]

HexChars == <<"0", "1", "2", "3", "4", "5", "6", "7",
              "8", "9", "a", "b", "c", "d", "e", "f">>
HexChar(d) == HexChars[d + 1]

IsZero(n) == \A k \in 1..8 : n[k] = 0
\* n divided by 16, and its remainder.
Div16(n) ==
    <<n[1] \div 16,
      (n[1] % 16) * 4096 + n[2] \div 16,
      (n[2] % 16) * 4096 + n[3] \div 16,
      (n[3] % 16) * 4096 + n[4] \div 16,
      (n[4] % 16) * 4096 + n[5] \div 16,
      (n[5] % 16) * 4096 + n[6] \div 16,
      (n[6] % 16) * 4096 + n[7] \div 16,
      (n[7] % 16) * 4096 + n[8] \div 16>>
Mod16(n) == n[8] % 16

\* The "x" presentation of an integer: its hexadecimal digits, lowercase,
\* with no leading zero (and "0" for zero).
RECURSIVE HexDigits(_)
HexDigits(n) ==
    IF IsZero(Div16(n)) THEN <<HexChar(Mod16(n))>>
    ELSE Append(HexDigits(Div16(n)), HexChar(Mod16(n)))

\* The "0<width>" of a format specification: zeros on the left up to the width.
ZeroPadNone(digits, width) == digits
ZeroPad(digits, width) ==
    IF Len(digits) >= width THEN digits
    ELSE [k \in 1..(width - Len(digits)) |-> "0"] \o digits

\* "{:032x}".format(n)
Format032x(n) == ZeroPad(HexDigits(n), HexWidth)

\* s[:k] and s[k:]
Min(a, b) == IF a <= b THEN a ELSE b
SliceTo(s, k) == SubSeq(s, 1, Min(k, Len(s)))
SliceFromOffByOne(s, k) == SubSeq(s, k + 2, Len(s))
SliceFrom(s, k) == SubSeq(s, k + 1, Len(s))

\* delimiter.join(parts)
RECURSIVE JoinNoDelimiter(_, _)
JoinNoDelimiter(delimiter, parts) ==
    IF Len(parts) = 0 THEN <<>>
    ELSE Head(parts) \o JoinNoDelimiter(delimiter, Tail(parts))
RECURSIVE Join(_, _)
Join(delimiter, parts) ==
    IF Len(parts) = 0 THEN <<>>
    ELSE IF Len(parts) = 1 THEN Head(parts)
    ELSE Head(parts) \o delimiter \o Join(delimiter, Tail(parts))

\* '{{"traceId": "{}"}}'.format(x)
JsonPrefix == <<"{", "\"", "t", "r", "a", "c", "e", "I", "d", "\"", ":", " ", "\"">>
JsonSuffix == <<"\"", "}">>
WrapJson(x) == JsonPrefix \o x \o JsonSuffix

convert_otel_trace_id_to_xray(otel_trace_id_decimal) ==
    LET otel_trace_id_hex == Format032x(otel_trace_id_decimal)
        x_ray_trace_id ==
            Join(TRACE_ID_DELIMITER,
                 <<TRACE_ID_VERSION,
                   SliceTo(otel_trace_id_hex, TRACE_ID_FIRST_PART_LENGTH),
                   SliceFrom(otel_trace_id_hex, TRACE_ID_FIRST_PART_LENGTH)>>)
    IN WrapJson(x_ray_trace_id)

\* with tracer.start_as_current_span("list_s3_buckets") as span: the span's
\* context carries a 128-bit trace id.
StartTrace ==
    /\ fpc = "idle"
    /\ trace_id' \in TraceIds
    /\ fpc' = "in_span"
    /\ UNCHANGED <<envvars, hvars, traceIdField>>

\* convert_otel_trace_id_to_xray(int(span.get_span_context().trace_id))
ConvertTraceId ==
    /\ fpc = "in_span"
    /\ traceIdField' = convert_otel_trace_id_to_xray(trace_id)
    /\ fpc' = "converted"
    /\ UNCHANGED <<envvars, hvars, trace_id>>

\* The route returns; the next request starts a new trace.
FinishTrace ==
    /\ fpc = "converted"
    /\ fpc' = "idle"
    /\ trace_id' = [k \in 1..8 |-> 0]
    /\ traceIdField' = <<>>
    /\ UNCHANGED <<envvars, hvars>>

InitFormat ==
    /\ variant = "main"
    /\ account = <<>>
    /\ HandlerInit({})
    /\ FormatIdle

NextFormat ==
    \/ StartTrace
    \/ ConvertTraceId
    \/ FinishTrace

\* The trace id conversion over the sampled 128-bit trace ids.
SpecFormat == InitFormat /\ [][NextFormat]_vars

\* ------------------------------------------------------------------ properties of the conversion

\* The j-th of the 32 hexadecimal digits of a 128-bit integer, by position.
DigitAt(n, j) == (n[((j - 1) \div 4) + 1] \div (16 ^ (3 - ((j - 1) % 4)))) % 16
LowerHex(d) == IF d < 10 THEN ToString(d) ELSE <<"a", "b", "c", "d", "e", "f">>[d - 9]
\* Bits hi..lo of a 128-bit integer (bit 127 first) as lowercase hex digits.
High32(n) == [j \in 1..8 |-> LowerHex(DigitAt(n, j))]
Low96(n) == [j \in 1..24 |-> LowerHex(DigitAt(n, j + 8))]

\* The string value of the only key of a JSON object literal {"key": "value"}.
QuotesOf(s) == {k \in 1..Len(s) : s[k] = "\""}
NthQuote(s, m) ==
    CHOOSE k \in QuotesOf(s) : Cardinality({q \in QuotesOf(s) : q < k}) = m - 1
JsonKey(s) == SubSeq(s, NthQuote(s, 1) + 1, NthQuote(s, 2) - 1)
JsonValue(s) == SubSeq(s, NthQuote(s, 3) + 1, NthQuote(s, 4) - 1)

\* s.split(d)
RECURSIVE Split(_, _)
Split(s, d) ==
    IF \A k \in 1..Len(s) : s[k] /= d THEN <<s>>
    ELSE LET first == CHOOSE k \in 1..Len(s) :
                          s[k] = d /\ \A m \in 1..(k - 1) : s[m] /= d
         IN <<SubSeq(s, 1, first - 1)>> \o Split(SubSeq(s, first + 1, Len(s)), d)
RECURSIVE Concat(_)
Concat(parts) == IF Len(parts) = 0 THEN <<>> ELSE Head(parts) \o Concat(Tail(parts))

\* The 128-bit integer that 32 hexadecimal digits denote.
HexValue(c) == CHOOSE d \in 0..15 : LowerHex(d) = c
FromHex(digits) ==
    [k \in 1..8 |-> 4096 * HexValue(digits[4 * k - 3]) + 256 * HexValue(digits[4 * k - 2])
                    + 16 * HexValue(digits[4 * k - 1]) + HexValue(digits[4 * k])]

\* C8: for every 128-bit trace id the conversion returns the JSON object literal
\* with the single key traceId whose value is version-A-B, A the high 32 bits
\* as exactly 8 lowercase hex digits and B the low 96 bits as exactly 24, with
\* leading zeros kept.
C8_XRayFormat ==
    fpc = "converted" =>
        /\ traceIdField =
               <<"{", "\"", "t", "r", "a", "c", "e", "I", "d", "\"", ":", " ", "\"">>
               \o TRACE_ID_VERSION \o <<"-">> \o High32(trace_id) \o <<"-">>
               \o Low96(trace_id) \o <<"\"", "}">>
        /\ Cardinality(QuotesOf(traceIdField)) = 4
        /\ JsonKey(traceIdField) = <<"t", "r", "a", "c", "e", "I", "d">>

\* C8 witness: trace id 0 was converted, to 8 and 24 zeros.
C8_Witness ==
    /\ fpc = "converted"
    /\ \A k \in 1..8 : trace_id[k] = 0
    /\ JsonValue(traceIdField) =
           TRACE_ID_VERSION \o <<"-">> \o [j \in 1..8 |-> "0"] \o <<"-">>
           \o [j \in 1..24 |-> "0"]

\* C9: the hex segments of the converted string, the version prefix and the
\* delimiters stripped, concatenate to the trace id's zero-padded 32-digit
\* lowercase hex representation, which denotes the trace id again: the
\* conversion loses nothing, so it is injective.
C9_RoundTrip ==
    fpc = "converted" =>
        LET parts == Split(JsonValue(traceIdField), "-")
            hex == Concat(Tail(parts))
        IN /\ Head(parts) = TRACE_ID_VERSION
           /\ Len(hex) = 32
           /\ hex = High32(trace_id) \o Low96(trace_id)
           /\ FromHex(hex) = trace_id

\* C9 witness: a trace id with leading zeros and a nonzero low part was converted.
C9_Witness ==
    /\ fpc = "converted"
    /\ trace_id[1] = 0
    /\ trace_id[2] = 2748
    /\ trace_id[8] = 65535

\* C10 as stated: the returned string has exactly len(version)+1+8+1+24
\* characters and exactly two occurrences of the delimiter.
C10_LengthAsStated ==
    fpc = "converted" =>
        /\ Len(traceIdField) = Len(TRACE_ID_VERSION) + 1 + 8 + 1 + 24
        /\ CountOf(traceIdField, "-") = 2

\* C10, amended: the returned string is the JSON object literal
\* {"traceId": "<v>"}; the value v has exactly len(version)+1+8+1+24 characters,
\* and the returned string, which is 15 characters longer than v, has exactly
\* two occurrences of the delimiter.
C10_LengthOfValue ==
    fpc = "converted" =>
        /\ Len(JsonValue(traceIdField)) = Len(TRACE_ID_VERSION) + 1 + 8 + 1 + 24
        /\ Len(traceIdField) = Len(JsonValue(traceIdField)) + 15
        /\ SubSeq(traceIdField, 1, 13) =
               <<"{", "\"", "t", "r", "a", "c", "e", "I", "d", "\"", ":", " ", "\"">>
        /\ SubSeq(traceIdField, Len(traceIdField) - 1, Len(traceIdField)) = <<"\"", "}">>
        /\ CountOf(traceIdField, "-") = 2

\* C10 witness: the largest trace id, 2^128 - 1, was converted.
C10_Witness ==
    /\ fpc = "converted"
    /\ \A k \in 1..8 : trace_id[k] = 65535
    /\ Len(traceIdField) = 50

\* ------------------------------------------------------------------ properties of the phases

IsOpen(i, s) == spans[i][s].opened > spans[i][s].closed
WasOpened(i, s) == spans[i][s].opened > 0
IsClosed(i, s) == spans[i][s].opened > 0 /\ spans[i][s].closed = spans[i][s].opened
\* The error of the except block is on the root span.
RootHasError(i) == spans[i][RootSpan].exceptions /= <<>>

\* C11: the phases of an invocation are sequential: a child span is opened only
\* while the root span is open, s3_list_buckets_api_call only after
\* s3_client_setup is closed and response_processing only after
\* s3_list_buckets_api_call is closed, so at most one child span is open; the
\* root span is closed only when no child span is open; and when the error is
\* recorded on the root span every opened child span, the failed one included,
\* is already closed.
C11_SequentialPhases ==
    \A i \in requests :
        /\ \A s \in ChildSpans :
               /\ WasOpened(i, s) => WasOpened(i, RootSpan)
               /\ IsOpen(i, s) => IsOpen(i, RootSpan)
               /\ RootHasError(i) => ~IsOpen(i, s)
        /\ WasOpened(i, ApiSpan) => IsClosed(i, ClientSpan)
        /\ WasOpened(i, ProcSpan) => IsClosed(i, ApiSpan)
        /\ Cardinality({s \in ChildSpans : IsOpen(i, s)}) <= 1
        /\ RootHasError(i) =>
               \E s \in ChildSpans :
                   /\ IsClosed(i, s)
                   /\ spans[i][s].exceptions = spans[i][RootSpan].exceptions

\* C11 witness: the processing phase failed; its span and the two before it are
\* closed, the error is on the root span and the root span is still open.
C11_Witness ==
    \E i \in requests :
        /\ RootHasError(i)
        /\ IsOpen(i, RootSpan)
        /\ spans[i][ProcSpan].status.code = "ERROR"
        /\ \A s \in ChildSpans : IsClosed(i, s)

\* ------------------------------------------------------------------ properties of the failure path

\* The invocation entered the except block.
Failed(i) == caught[i] /= NoExc
ErrorLogs(i) == SelectSeq(logs[i], LAMBDA entry : entry.level = "error")
ErrorAdds(i) == CountOf(adds[i], [operation |-> "list_buckets", status |-> "error"])
RootClosed(i) == spans[i][RootSpan].closed > 0

\* What holds of the failure path in both applications: the error is recorded
\* on the root span, with status ERROR and its message, once and before the
\* add() and the log; the error-labelled add() and the error log, which
\* carries the message, happen once each before the root span is closed; and
\* the success path logs nothing at error severity.
FailureSteps(i) ==
    /\ Len(spans[i][RootSpan].exceptions) <= 1
    /\ Len(ErrorLogs(i)) <= 1
    /\ ErrorAdds(i) <= 1
    /\ RootHasError(i) <=> Failed(i)
    /\ RootHasError(i) =>
           /\ spans[i][RootSpan].exceptions = <<caught[i]>>
           /\ spans[i][RootSpan].status =
                  [code |-> "ERROR", description |-> caught[i].msg]
    /\ ErrorAdds(i) = 1 => RootHasError(i)
    /\ Len(ErrorLogs(i)) = 1 =>
           /\ RootHasError(i)
           /\ ErrorLogs(i)[1].msg[2] = caught[i].msg
    /\ RootClosed(i) /\ Failed(i) => ErrorAdds(i) = 1 /\ Len(ErrorLogs(i)) = 1
    /\ ~Failed(i) => ErrorLogs(i) = <<>> /\ ErrorAdds(i) = 0

PhaseOrder == <<ClientSpan, ApiSpan, ProcSpan>>
PhaseIndex(s) == CHOOSE k \in 1..Len(PhaseOrder) : PhaseOrder[k] = s
LaterPhases(s) == {PhaseOrder[k] : k \in (PhaseIndex(s) + 1)..Len(PhaseOrder)}

\* The exception raised inside the phase of span s (NoExc: none): in flight
\* while the span is open, recorded on the span once its block is left.
PhaseError(i, s) ==
    IF IsOpen(i, s) THEN exc[i]
    ELSE IF spans[i][s].exceptions /= <<>> THEN spans[i][s].exceptions[1]
    ELSE NoExc

HasAttribute(span, key) == \E k \in 1..Len(span.attrs) : span.attrs[k][1] = key
HasEvent(span, name) == \E k \in 1..Len(span.events) : span.events[k] = name

C13_ProcessingFailed ==
    \E i \in requests :
        /\ Returned(i)
        /\ PhaseError(i, ProcSpan) = [type |-> "KeyError", msg |-> "'Name'"]
        /\ IsErrorShape(result[i])

====
